---- MODULE Spec2Model ----
(***************************************************************************)
(* Model of the vehicle/insurance modification workflow of stch-backend:   *)
(* the route PUT /concesion/:idConcesion/vehiculo/:idVehiculo              *)
(* (src/src/routes/api.js) and modificarVehiculoYAseguradora               *)
(* (src/src/services/dbService.js).                                        *)
(*                                                                         *)
(* dbService.js holds unresolved merge hunks.  The model follows the       *)
(* 806dd7c side of every hunk (the three-argument, transaction-based       *)
(* function that the route calls with userData).  The one statement        *)
(* `await insuranceRequest.execute('AseguradoraInsertar')` (line 1573)     *)
(* stands, in file order, after the insurance inputs (1541-1551) and       *)
(* before `await transaction.commit()` (1592), inside the same try block.  *)
(*                                                                         *)
(* Every awaited database call is one step and may fail.  The vehicle      *)
(* database is modelled as committed tables plus, per call, the writes     *)
(* pending in its transaction; the concession database is written by an    *)
(* auto-committed pool request.                                            *)
(***************************************************************************)
EXTENDS Integers, FiniteSets, Sequences, TLC

\* ------------------------------------------------------------------ bounds
MaxCalls == 2

Procs == {1, 2}

\* JS undefined / SQL NULL
Null == 0 - 1

\* ------------------------------------------------------------ input domains
Serials == {"NIV12345", "UNKNOWN"}
ClaseLabels == {"Automovil", "Motocicleta"}
TipoLabels == {"Sedan", "Pickup"}
UsoLabels == {"Taxi"}
ColorLabels == {"Azul", "Turquesa"}

\* a field the request body does not carry (JS undefined, bound as NULL)
Undefined == "undefined"

MarcaLabels == {"Nissan", "Tesla", Undefined}
SubmarcaLabels == {"Versa"}
Claves == {"K1", "K2", "K0"}

VehiculoInputs ==
    [NumeroSerie : Serials, Clase : ClaseLabels, Tipo : TipoLabels,
     Uso : UsoLabels, Color : ColorLabels,
     Marca : {"Nissan"}, Submarca : SubmarcaLabels, ClaveVehicular : {"K1"}]

\* requests that vary the make and the vehicle key
MarcaInputs ==
    [NumeroSerie : {"NIV12345"}, Clase : {"Automovil"}, Tipo : {"Sedan"},
     Uso : UsoLabels, Color : ColorLabels,
     Marca : MarcaLabels, Submarca : SubmarcaLabels, ClaveVehicular : Claves]

\* requests served at the same time
ConcInputs ==
    [NumeroSerie : {"NIV12345"}, Clase : {"Automovil"}, Tipo : {"Sedan"},
     Uso : UsoLabels, Color : {"Turquesa"},
     Marca : {"Nissan"}, Submarca : SubmarcaLabels, ClaveVehicular : {"K1"}]

\* userResult.recordset[0] || {} : no row (every field undefined), or a row
\* whose ProfileID is NULL (LEFT JOIN miss) and whose other ids are set.
UserContexts ==
    { [UserID |-> Null, ProfileID |-> Null, SmartCardID |-> Null, DelegationID |-> Null],
      [UserID |-> 3, ProfileID |-> Null, SmartCardID |-> 0, DelegationID |-> 4] }

\* how the caller passed authenticateApiKeyOrSession: by the session cookie
\* (req.session.userId) or by an API key (req.user = the key's user, no session)
AuthInputs ==
    { [apiKeyUser |-> Null, sessionUserId |-> 3],
      [apiKeyUser |-> 3, sessionUserId |-> Null] }

SessionAuth == { a \in AuthInputs : a.apiKeyUser = Null }

Concesiones == {5, 6}
Polizas == {"P1", "P2"}

\* req.params.idConcesion
ParamConcesiones == {5}

\* req.body.seguroData: the body may carry its own idConcesion
SeguroInputs == [idConcesion : {6}, numeroPoliza : Polizas]

OneSeguro == [idConcesion : {6}, numeroPoliza : {"P1"}]

\* ------------------------------------------- HTTP layer: requests and tables
MaxReqs == 2

\* no Authorization header (or an empty bearer key)
NoKey == 0

\* dbo.mUsers: the users that exist
MUsers == {3, 4}

\* a user id that a session or a key still names but that is not in mUsers
StaleUser == 9

\* dbo.api_keys: an active key of user 4, a deleted key of user 3, and an
\* active key whose user is gone
SeedApiKeys ==
    { [key |-> 41, user_id |-> 4, deleted |-> FALSE],
      [key |-> 31, user_id |-> 3, deleted |-> TRUE],
      [key |-> 91, user_id |-> StaleUser, deleted |-> FALSE] }

\* bearer keys a client may send: none, each seeded key, and an unknown one
HeaderKeys == {NoKey, 41, 31, 91, 77}

\* the session cookie a client presents: none, its current session, or a
\* session whose userId names a user that no longer exists
Cookies == {"none", "current", "stale"}

RouteCsrf == [method |-> "GET", path |-> "/api/csrf-token"]
RouteLogin == [method |-> "POST", path |-> "/api/auth/login"]
RouteLoginGet == [method |-> "GET", path |-> "/api/auth/login"]
RouteModificar == [method |-> "PUT", path |-> "/api/concesion/5/vehiculo/10"]
RouteImprimir == [method |-> "POST", path |-> "/api/revista/imprimir"]

\* req.body of POST /auth/login: the user whose credentials are sent (Null:
\* credentials that match no user); of POST /revista/imprimir: idRV
\* (Null: missing)
Credentials == {3, Null}
IdRVs == {70, 71, Null}

\* dbo.RevistaVehicular: one inspection, not yet printed
SeedRevista == { [IdRevistaVehicular |-> 70, IdEstatus |-> 1, Folio |-> "", by |-> 0] }

HttpInputs ==
    [route : {RouteCsrf, RouteLoginGet, RouteModificar}, key : HeaderKeys,
     cookie : Cookies, cred : {Null}, idRV : {Null}]
    \cup
    [route : {RouteLogin}, key : {NoKey}, cookie : {"none"},
     cred : Credentials, idRV : {Null}]
    \cup
    [route : {RouteImprimir}, key : {NoKey, 41}, cookie : {"none", "current"},
     cred : {Null}, idRV : IdRVs]

\* logins of one user arriving at the same time
LoginInputs ==
    [route : {RouteLogin}, key : {NoKey}, cookie : {"none"},
     cred : {3}, idRV : {Null}]

NoHreq ==
    [id |-> 0, route |-> [method |-> "", path |-> ""], key |-> NoKey,
     sessionUserId |-> Null, cred |-> Null, idRV |-> Null]

NoHres ==
    [status |-> 0, handler |-> "none", user |-> Null, logFailed |-> FALSE,
     apiKey |-> NoKey]

NoReq ==
    [idConcesionInt |-> Null,
     auth |-> [apiKeyUser |-> Null, sessionUserId |-> Null],
     vehiculoData |-> [NumeroSerie |-> "", Clase |-> "", Tipo |-> "", Uso |-> "", Color |-> "",
                       Marca |-> "", Submarca |-> "", ClaveVehicular |-> ""],
     seguroData |-> [idConcesion |-> Null, numeroPoliza |-> ""],
     userData |-> [UserID |-> Null, ProfileID |-> Null, SmartCardID |-> Null, DelegationID |-> Null]]

\* ------------------------------------------------------------------- state
VARIABLES
    catalog,      \* committed rows of Vehiculo.Clase / Tipo / Uso / Color
    identity,     \* last identity value handed out per identity-keyed catalog
    vehiculo,     \* committed dbo.Vehiculo, keyed by NumeroSerie
    bitacora,     \* committed audit rows (CV_InsertarBitacoraVehiculo)
    aseguradora,  \* concession database: policy per IdConcesion
    nCalls,       \* number of calls started so far
    pc,           \* per call slot: position in the function
    callId,       \* per call slot: number of the call it runs
    req,          \* per call slot: {vehiculoData, seguroData, userData}
    loc,          \* per call slot: IdClase, IdTipo, IdUso, IdColor, idVehiculo
    bound,        \* per call slot: parameters bound on `request` so far
    txState,      \* per call slot: state of `transaction`
    txCatalog,    \* per call slot: catalog rows inserted, not yet committed
    txVehiculo,   \* per call slot: vehicle rows updated, not yet committed
    txBitacora,   \* per call slot: audit rows written, not yet committed
    result,       \* per call slot: what the caller received
    failedAt,     \* per call slot: the step whose await rejected
    insExec,      \* per call slot: executions of AseguradoraInsertar
    insTarget,    \* per call slot: idConcesion of the last execution
    rollbackCalls,\* per call slot: calls of transaction.rollback()
    created,      \* per call slot: catalog rows this call inserted
    resolved,     \* history: every (catalog, label, class, id) a resolution returned
    nUpdates,     \* history: commits that carried an update of a vehicle row
    nReqs,        \* number of HTTP requests received so far
    hpc,          \* per request slot: position in the middleware chain / handler
    hreq,         \* per request slot: method, path, headers, body, req.session
    hres,         \* per request slot: status sent, handler that ran, req.user
    session,      \* the session store: userId of the client's session
    apiKeys,      \* dbo.api_keys
    historial,    \* RevistaVehicular.Historial
    revista       \* dbo.RevistaVehicular, keyed by IdRevistaVehicular

dbVars == <<catalog, identity, vehiculo, bitacora>>
txVars == <<txState, txCatalog, txVehiculo, txBitacora>>
ghostVars == <<insExec, insTarget, rollbackCalls, created, resolved, nUpdates>>
httpVars == <<nReqs, hpc, hreq, hres, session, apiKeys, historial, revista>>
mainVars == <<catalog, identity, vehiculo, bitacora, aseguradora, nCalls, pc, callId,
              req, loc, bound, txState, txCatalog, txVehiculo, txBitacora, result,
              failedAt, insExec, insTarget, rollbackCalls, created, resolved, nUpdates>>
vars == <<catalog, identity, vehiculo, bitacora, aseguradora, nCalls, pc, callId,
          req, loc, bound, txState, txCatalog, txVehiculo, txBitacora, result,
          failedAt, insExec, insTarget, rollbackCalls, created, resolved, nUpdates,
          nReqs, hpc, hreq, hres, session, apiKeys, historial, revista>>

\* --------------------------------------------------------------- seed data
SeedCatalog ==
    { [cat |-> "Clase", id |-> 1, label |-> "Automovil", idClase |-> 0, by |-> 0],
      [cat |-> "Tipo",  id |-> 1, label |-> "Sedan",     idClase |-> 1, by |-> 0],
      [cat |-> "Uso",   id |-> 1, label |-> "Particular", idClase |-> 0, by |-> 0],
      [cat |-> "Color", id |-> 7, label |-> "Azul",      idClase |-> 0, by |-> 0],
      [cat |-> "Marca", id |-> 21, label |-> "Nissan",   idClase |-> 0, by |-> 0],
      [cat |-> "Submarca", id |-> 31, label |-> "Versa", idClase |-> 0, by |-> 0] }

SeedIdentity == [Clase |-> 1, Uso |-> 1, Color |-> 7]

SeedVehiculo ==
    { [NumeroSerie |-> "NIV12345", IdVehiculo |-> 10, IdClase |-> 1, IdTipo |-> 1,
       IdUso |-> 1, IdColor |-> 7, IdMarca |-> 20, IdSubMarca |-> 30,
       IdCategoria |-> 4],
      [NumeroSerie |-> "NIV67890", IdVehiculo |-> 11, IdClase |-> 1, IdTipo |-> 1,
       IdUso |-> 1, IdColor |-> 7, IdMarca |-> 20, IdSubMarca |-> 30,
       IdCategoria |-> 4] }

\* rows of dbo.fn_ObtenerMarcaSubmarcaVersionCategoria per vehicle key: a row
\* with every id, a row without category and ids, or no row at all
SeedCategoria ==
    [k \in Claves |->
        CASE k = "K1" -> << [IdCategoria |-> 4, IdMarca |-> 20, IdSubmarca |-> 30] >>
          [] k = "K2" -> << [IdCategoria |-> Null, IdMarca |-> Null, IdSubmarca |-> Null] >>
          [] OTHER -> << >>]

NoPoliza == [numeroPoliza |-> "", by |-> 0]

\* recordset[0] || {} of a query that returned no row
NoCategoria == [IdCategoria |-> Null, IdMarca |-> Null, IdSubmarca |-> Null]

NoIds == [IdClase |-> Null, IdTipo |-> Null, IdUso |-> Null, IdColor |-> Null,
          IdMarca |-> Null, IdSubMarca |-> Null]

NoLoc == [ids |-> NoIds, categoriaData |-> NoCategoria,
          IdClase |-> Null, IdTipo |-> Null, IdUso |-> Null, IdColor |-> Null,
          IdMarca |-> Null, IdSubMarca |-> Null, IdCategoria |-> Null,
          idVehiculo |-> Null]

NoResult == [kind |-> "none", idVehiculo |-> Null, returnValue |-> Null,
             step |-> "", wrapped |-> FALSE]

Init ==
    /\ catalog = SeedCatalog
    /\ identity = SeedIdentity
    /\ vehiculo = SeedVehiculo
    /\ bitacora = {}
    /\ aseguradora = [c \in Concesiones |-> NoPoliza]
    /\ nCalls = 0
    /\ pc = [p \in Procs |-> "idle"]
    /\ callId = [p \in Procs |-> 0]
    /\ req = [p \in Procs |-> NoReq]
    /\ loc = [p \in Procs |-> NoLoc]
    /\ bound = [p \in Procs |-> {}]
    /\ txState = [p \in Procs |-> "undefined"]
    /\ txCatalog = [p \in Procs |-> {}]
    /\ txVehiculo = [p \in Procs |-> {}]
    /\ txBitacora = [p \in Procs |-> {}]
    /\ result = [p \in Procs |-> NoResult]
    /\ failedAt = [p \in Procs |-> ""]
    /\ insExec = [p \in Procs |-> 0]
    /\ insTarget = [p \in Procs |-> Null]
    /\ rollbackCalls = [p \in Procs |-> 0]
    /\ created = [p \in Procs |-> {}]
    /\ resolved = {}
    /\ nUpdates = 0
    /\ nReqs = 0
    /\ hpc = [p \in Procs |-> "idle"]
    /\ hreq = [p \in Procs |-> NoHreq]
    /\ hres = [p \in Procs |-> NoHres]
    /\ session = Null
    /\ apiKeys = SeedApiKeys
    /\ historial = {}
    /\ revista = SeedRevista

\* ----------------------------------------------------------------- helpers
\* JS truthiness of an id: `!x || x === 0`
Falsy(x) == x = Null \/ x = 0

OrZeroKeepsNull(x) == x

\* JS `x || 0`
OrZero(x) == IF Falsy(x) THEN 0 ELSE x

\* JS `a || b` on ids
OrElse(a, b) == IF Falsy(a) THEN b ELSE a

NeedsInsertAlways(id) == TRUE

\* `if (!IdX || IdX === 0)`: the find-or-create branch is taken
NeedsInsert(id) == Falsy(id)

InFlight(p) == pc[p] \notin {"idle", "returned", "thrown"}

\* rows a statement of call p reads: committed rows and its own pending rows
Visible(p) == catalog \cup txCatalog[p]

VisibleVehiculo(p) ==
    { r \in vehiculo : \A u \in txVehiculo[p] : u.NumeroSerie # r.NumeroSerie }
    \cup txVehiculo[p]

MinOf(S) == CHOOSE x \in S : \A y \in S : x <= y
MaxOf(S) == CHOOSE x \in S : \A y \in S : x >= y

\* exact-match lookup of a label in one catalog (Tipo: within a class)
LookupId(rows, cat, label, idClase) ==
    LET hits == { r.id : r \in { q \in rows : /\ q.cat = cat
                                               /\ q.label = label
                                               /\ q.idClase = idClase } }
    IN  IF hits = {} THEN Null ELSE MinOf(hits)

\* dbo.CV_ObtenerIDSVehiculo(@Clase, @Color, ..., @Tipo, @Uso, ...)
ObtenerIDSVehiculo(rows, v) ==
    LET idClase == LookupId(rows, "Clase", v.Clase, 0)
    IN  [IdClase |-> idClase,
         IdTipo  |-> IF idClase = Null THEN Null
                     ELSE LookupId(rows, "Tipo", v.Tipo, idClase),
         IdUso   |-> LookupId(rows, "Uso", v.Uso, 0),
         IdColor |-> LookupId(rows, "Color", v.Color, 0),
         IdMarca |-> LookupId(rows, "Marca", v.Marca, 0),
         IdSubMarca |-> LookupId(rows, "Submarca", v.Submarca, 0)]

\* dbo.fn_ObtenerMarcaSubmarcaVersionCategoria(@ClaveVehicular, @Marca, ...)
FnCategoria(v) == SeedCategoria[v.ClaveVehicular]

\* SELECT ISNULL(MAX(IdTipoVehiculo), 0) + 1 FROM Vehiculo.Tipo WHERE IdClase = @IdClase
NewIdTipo(rows, idClase) ==
    LET ids == { r.id : r \in { q \in rows : q.cat = "Tipo" /\ q.idClase = idClase } }
    IN  IF ids = {} THEN 1 ELSE MaxOf(ids) + 1

\* the (catalog, label, class, id) answers contained in a lookup result
Found(ids, v) ==
    { t \in { [cat |-> "Clase", label |-> v.Clase, idClase |-> 0, id |-> ids.IdClase],
              [cat |-> "Tipo", label |-> v.Tipo, idClase |-> ids.IdClase, id |-> ids.IdTipo],
              [cat |-> "Uso", label |-> v.Uso, idClase |-> 0, id |-> ids.IdUso],
              [cat |-> "Color", label |-> v.Color, idClase |-> 0, id |-> ids.IdColor] } :
      t.id # Null }

\* parameters bound by request.input(...) and referenced by each statement
InputsIds == {"Clase", "Color", "Combustible", "Marca", "Origen", "Submarca",
              "Tipo", "Uso", "IdTipoPlaca"}
InputsCategoria == {"servicio", "ClaveVehicular", "Version"}
InputsUpdate == {"Anio", "NumeroPasajeros", "Cilindros", "IdClase", "IdTipo", "IdMarca",
                 "IdSubMarca", "IdVersion", "IdUso", "IdCombustible", "ClaveOrigen",
                 "IdColor", "NumeroMotor", "RFV", "NumeroPuertas", "NRPV",
                 "NumeroToneladas", "Capacidad", "IdServicio", "IdTipoPlacaWP",
                 "IdCategoria", "NumeroSerie"}

ParamsIds == InputsIds
ParamsCategoria == {"servicio", "ClaveVehicular", "Marca", "Submarca", "Version"}
ParamsInsertClase == {"Clase"}
ParamsTipo == {"IdClase", "IdTipo", "Tipo"}
ParamsInsertUso == {"Uso"}
ParamsInsertColor == {"Color"}
ParamsUpdate ==
    {"Anio", "NumeroPasajeros", "Cilindros", "IdClase", "Clase", "IdTipo", "Tipo",
     "IdMarca", "Marca", "IdSubMarca", "Submarca", "IdVersion", "Version", "IdUso",
     "Uso", "IdCombustible", "Combustible", "ClaveOrigen", "IdColor", "Color",
     "NumeroMotor", "RFV", "NumeroPuertas", "NRPV", "ClaveVehicular",
     "NumeroToneladas", "Capacidad", "IdServicio", "IdTipoPlacaWP", "IdCategoria",
     "NumeroSerie"}
ParamsSelect == {"NumeroSerie"}

\* a statement that names a parameter not bound on the request is rejected
\* by the server ("Must declare the scalar variable")
Declared(params, inputs) == params \subseteq inputs

FailNoCatch(p, step) ==
    /\ pc' = [pc EXCEPT ![p] = "thrown"]
    /\ failedAt' = [failedAt EXCEPT ![p] = step]

\* the awaited call of `step` rejected: control goes to the catch block
Fail(p, step) ==
    /\ pc' = [pc EXCEPT ![p] = "catch"]
    /\ failedAt' = [failedAt EXCEPT ![p] = step]

Goto(p, next) ==
    /\ pc' = [pc EXCEPT ![p] = next]
    /\ UNCHANGED failedAt

\* ------------------------------------------------------------------ route
RouteSeguroKeepsBody(idConcesionInt, seguroData) == seguroData

\* seguroData.idConcesion = idConcesionInt
RouteSeguro(idConcesionInt, seguroData) ==
    [seguroData EXCEPT !.idConcesion = idConcesionInt]

\* authenticateApiKeyOrSession: req.user of a request that is let through
AuthenticatedUser(auth) ==
    IF auth.apiKeyUser # Null THEN auth.apiKeyUser ELSE auth.sessionUserId

\* userRequest.input('UserID', sql.Int, req.session.userId || 0);
\* userData = userResult.recordset[0] || {}
RouteUser(auth) ==
    LET hits == { u \in UserContexts : u.UserID = OrZero(auth.sessionUserId) }
    IN  IF hits = {}
        THEN [UserID |-> Null, ProfileID |-> Null, SmartCardID |-> Null,
              DelegationID |-> Null]
        ELSE CHOOSE u \in hits : TRUE

\* PUT /concesion/:idConcesion/vehiculo/:idVehiculo up to the service call,
\* for a request drawn from the given vehicle inputs
StartFrom(p, inputs, auths, seguros) ==
    /\ nCalls < MaxCalls
    /\ ~InFlight(p)
    /\ \E v \in inputs, a \in auths, s \in seguros,
          idConcesionInt \in ParamConcesiones :
          req' = [req EXCEPT ![p] = [idConcesionInt |-> idConcesionInt,
                                     auth |-> a,
                                     vehiculoData |-> v,
                                     seguroData |-> RouteSeguro(idConcesionInt, s),
                                     userData |-> RouteUser(a)]]
    /\ nCalls' = nCalls + 1
    /\ callId' = [callId EXCEPT ![p] = nCalls + 1]
    /\ pc' = [pc EXCEPT ![p] = "begin"]
    /\ loc' = [loc EXCEPT ![p] = NoLoc]
    /\ bound' = [bound EXCEPT ![p] = {}]
    /\ txState' = [txState EXCEPT ![p] = "undefined"]
    /\ txCatalog' = [txCatalog EXCEPT ![p] = {}]
    /\ txVehiculo' = [txVehiculo EXCEPT ![p] = {}]
    /\ txBitacora' = [txBitacora EXCEPT ![p] = {}]
    /\ result' = [result EXCEPT ![p] = NoResult]
    /\ failedAt' = [failedAt EXCEPT ![p] = ""]
    /\ insExec' = [insExec EXCEPT ![p] = 0]
    /\ insTarget' = [insTarget EXCEPT ![p] = Null]
    /\ rollbackCalls' = [rollbackCalls EXCEPT ![p] = 0]
    /\ created' = [created EXCEPT ![p] = {}]
    /\ UNCHANGED <<dbVars, aseguradora, resolved, nUpdates, httpVars>>

StartCall(p) == StartFrom(p, VehiculoInputs, AuthInputs, SeguroInputs)

\* non-concurrent requests: one call at a time
StartSeq(p) ==
    /\ \A q \in Procs : ~InFlight(q)
    /\ p = 1
    /\ StartCall(p)

\* non-concurrent requests that vary the make and the vehicle key
StartMarca(p) ==
    /\ \A q \in Procs : ~InFlight(q)
    /\ p = 1
    /\ StartFrom(p, MarcaInputs, SessionAuth, OneSeguro)

\* requests arriving while another call is in flight
StartConc(p) == StartFrom(p, ConcInputs, SessionAuth, OneSeguro)

\* ------------------------------------------------- modificarVehiculoYAseguradora
\* transaction = new sql.Transaction(poolVehicle); await transaction.begin()
Begin(p) ==
    /\ pc[p] = "begin"
    /\ \/ /\ txState' = [txState EXCEPT ![p] = "open"]
          /\ Goto(p, "lookup")
       \/ /\ txState' = [txState EXCEPT ![p] = "created"]
          /\ Fail(p, "begin")
    /\ UNCHANGED <<dbVars, aseguradora, nCalls, callId, httpVars, req, loc, bound,
                   txCatalog, txVehiculo, txBitacora, result, ghostVars>>

\* Lookup Resolver: bind the labels, query CV_ObtenerIDSVehiculo
Lookup(p) ==
    /\ pc[p] = "lookup"
    /\ bound' = [bound EXCEPT ![p] = @ \cup InputsIds]
    /\ \/ /\ Declared(ParamsIds, bound'[p])
          /\ LET ids == ObtenerIDSVehiculo(Visible(p), req[p].vehiculoData)
             IN  loc' = [loc EXCEPT ![p] =
                    [NoLoc EXCEPT !.ids = ids,
                                  !.IdClase = ids.IdClase, !.IdTipo = ids.IdTipo,
                                  !.IdUso = ids.IdUso, !.IdColor = ids.IdColor,
                                  !.IdMarca = ids.IdMarca,
                                  !.IdSubMarca = ids.IdSubMarca]]
          /\ resolved' = resolved \cup
                Found(ObtenerIDSVehiculo(Visible(p), req[p].vehiculoData),
                      req[p].vehiculoData)
          /\ Goto(p, "categoria")
       \/ /\ Fail(p, "lookup")
          /\ UNCHANGED <<loc, resolved>>
    /\ UNCHANGED <<dbVars, aseguradora, nCalls, callId, httpVars, req, txVars, result,
                   insExec, insTarget, rollbackCalls, created, nUpdates>>

\* CV_ObtenerIDServicio and fn_ObtenerMarcaSubmarcaVersionCategoria
CategoriaNoDefault(categoriaData) == categoriaData.IdCategoria

\* let IdCategoria = categoriaData.IdCategoria || 0
CategoriaOrZero(categoriaData) == OrZero(categoriaData.IdCategoria)

PreferPlain(fromCategoria, fromIds) == OrElse(fromIds, fromCategoria)

\* IdMarca = categoriaData.IdMarca || IdMarca (and the same for IdSubMarca)
PreferCategoria(fromCategoria, fromIds) == OrElse(fromCategoria, fromIds)

\* Category Resolver: categoriaData = categoriaResult.recordset[0] || {}
Categoria(p) ==
    /\ pc[p] = "categoria"
    /\ bound' = [bound EXCEPT ![p] = @ \cup InputsCategoria]
    /\ \/ /\ Declared(ParamsCategoria, bound'[p])
          /\ LET recordset == FnCategoria(req[p].vehiculoData)
                 categoriaData == IF recordset = << >> THEN NoCategoria
                                  ELSE recordset[1]
             IN  loc' = [loc EXCEPT
                    ![p].categoriaData = categoriaData,
                    ![p].IdCategoria = CategoriaOrZero(categoriaData),
                    ![p].IdMarca = PreferCategoria(categoriaData.IdMarca, @),
                    ![p].IdSubMarca = PreferCategoria(categoriaData.IdSubmarca, @)]
          /\ Goto(p, "clase")
       \/ /\ Fail(p, "categoria")
          /\ UNCHANGED loc
    /\ UNCHANGED <<dbVars, aseguradora, nCalls, callId, httpVars, req, txVars, result, ghostVars>>

InsertRowOnPool(p, row) ==
    /\ catalog' = catalog \cup {row}
    /\ created' = [created EXCEPT ![p] = @ \cup {row}]
    /\ resolved' = resolved \cup {[cat |-> row.cat, label |-> row.label,
                                   idClase |-> row.idClase, id |-> row.id]}
    /\ UNCHANGED txCatalog

\* an INSERT issued on the transaction's request: pending until commit
InsertRow(p, row) ==
    /\ txCatalog' = [txCatalog EXCEPT ![p] = @ \cup {row}]
    /\ created' = [created EXCEPT ![p] = @ \cup {row}]
    /\ resolved' = resolved \cup {[cat |-> row.cat, label |-> row.label,
                                   idClase |-> row.idClase, id |-> row.id]}
    /\ UNCHANGED catalog

FindOrCreateUnique(p, cat, field, label, params, step, next) ==
    /\ UNCHANGED <<vehiculo, bitacora, aseguradora, nCalls, callId, httpVars, req, bound,
                   txState, txVehiculo, txBitacora, result,
                   insExec, insTarget, rollbackCalls, nUpdates>>
    /\ IF /\ NeedsInsert(loc[p][field])
          /\ \A r \in catalog : ~(r.cat = cat /\ r.label = label)
       THEN \/ /\ Declared(params, bound[p])
               /\ LET id == identity[cat] + 1
                  IN  /\ InsertRow(p, [cat |-> cat, id |-> id, label |-> label,
                                       idClase |-> 0, by |-> callId[p]])
                      /\ identity' = [identity EXCEPT ![cat] = id]
                      /\ loc' = [loc EXCEPT ![p][field] = id]
               /\ Goto(p, next)
            \/ /\ Fail(p, step)
               /\ UNCHANGED <<catalog, identity, loc, txCatalog, created, resolved>>
       ELSE /\ Goto(p, next)
            /\ UNCHANGED <<catalog, identity, loc, txCatalog, created, resolved>>

\* if (!IdX || IdX === 0) { INSERT ... OUTPUT inserted.IdX VALUES (@X) }
\* The identity value is consumed whether or not the transaction commits.
FindOrCreate(p, cat, field, label, params, step, next) ==
    /\ UNCHANGED <<vehiculo, bitacora, aseguradora, nCalls, callId, httpVars, req, bound,
                   txState, txVehiculo, txBitacora, result,
                   insExec, insTarget, rollbackCalls, nUpdates>>
    /\ IF NeedsInsert(loc[p][field])
       THEN \/ /\ Declared(params, bound[p])
               /\ LET id == identity[cat] + 1
                  IN  /\ InsertRow(p, [cat |-> cat, id |-> id, label |-> label,
                                       idClase |-> 0, by |-> callId[p]])
                      /\ identity' = [identity EXCEPT ![cat] = id]
                      /\ loc' = [loc EXCEPT ![p][field] = id]
               /\ Goto(p, next)
            \/ /\ Fail(p, step)
               /\ UNCHANGED <<catalog, identity, loc, txCatalog, created, resolved>>
       ELSE /\ Goto(p, next)
            /\ UNCHANGED <<catalog, identity, loc, txCatalog, created, resolved>>

ResolveClase(p) ==
    /\ pc[p] = "clase"
    /\ FindOrCreate(p, "Clase", "IdClase", req[p].vehiculoData.Clase,
                    ParamsInsertClase, "clase", "tipo")

\* MAX(IdTipoVehiculo)+1 within the class, then INSERT INTO Vehiculo.Tipo;
\* both statements name @IdClase (and @IdTipo), bound only before the UPDATE
ResolveTipo(p) ==
    /\ pc[p] = "tipo"
    /\ UNCHANGED <<vehiculo, bitacora, aseguradora, nCalls, callId, httpVars, req, bound,
                   txState, txVehiculo, txBitacora, result, identity,
                   insExec, insTarget, rollbackCalls, nUpdates>>
    /\ IF NeedsInsert(loc[p].IdTipo)
       THEN \/ /\ Declared(ParamsTipo, bound[p])
               /\ LET id == NewIdTipo(Visible(p), loc[p].IdClase)
                  IN  /\ InsertRow(p, [cat |-> "Tipo", id |-> id,
                                       label |-> req[p].vehiculoData.Tipo,
                                       idClase |-> loc[p].IdClase, by |-> callId[p]])
                      /\ loc' = [loc EXCEPT ![p].IdTipo = id]
               /\ Goto(p, "uso")
            \/ /\ Fail(p, "tipo")
               /\ UNCHANGED <<catalog, loc, txCatalog, created, resolved>>
       ELSE /\ Goto(p, "uso")
            /\ UNCHANGED <<catalog, loc, txCatalog, created, resolved>>

ResolveUso(p) ==
    /\ pc[p] = "uso"
    /\ FindOrCreate(p, "Uso", "IdUso", req[p].vehiculoData.Uso,
                    ParamsInsertUso, "uso", "color")

ResolveColorSkipsUpdate(p) ==
    /\ pc[p] = "color"
    /\ FindOrCreate(p, "Color", "IdColor", req[p].vehiculoData.Color,
                    ParamsInsertColor, "color", "select")

ResolveColor(p) ==
    /\ pc[p] = "color"
    /\ FindOrCreate(p, "Color", "IdColor", req[p].vehiculoData.Color,
                    ParamsInsertColor, "color", "update")

WhereAnySerie(rows, numeroSerie) == rows

\* ... WHERE NumeroSerie = @NumeroSerie
WhereNumeroSerie(rows, numeroSerie) == { q \in rows : q.NumeroSerie = numeroSerie }

\* UPDATE dbo.Vehiculo SET ... WHERE NumeroSerie = @NumeroSerie
\* (rows affected are not inspected)
UpdateVehiculo(p) ==
    /\ pc[p] = "update"
    /\ bound' = [bound EXCEPT ![p] = @ \cup InputsUpdate]
    /\ \/ /\ Declared(ParamsUpdate, bound'[p])
          /\ txVehiculo' = [txVehiculo EXCEPT ![p] =
                { [r EXCEPT !.IdClase = loc[p].IdClase, !.IdTipo = loc[p].IdTipo,
                            !.IdUso = loc[p].IdUso, !.IdColor = loc[p].IdColor,
                            !.IdMarca = loc[p].IdMarca,
                            !.IdSubMarca = loc[p].IdSubMarca,
                            !.IdCategoria = loc[p].IdCategoria] :
                  r \in WhereNumeroSerie(VisibleVehiculo(p),
                                         req[p].vehiculoData.NumeroSerie) }]
          /\ Goto(p, "select")
       \/ /\ Fail(p, "update")
          /\ UNCHANGED txVehiculo
    /\ UNCHANGED <<dbVars, aseguradora, nCalls, callId, httpVars, req, loc, txState, txCatalog,
                   txBitacora, result, ghostVars>>

\* SELECT IdVehiculo ... WHERE NumeroSerie = @NumeroSerie;
\* idVehiculo = vehiculoResult.recordset[0]?.IdVehiculo
SelectVehiculo(p) ==
    /\ pc[p] = "select"
    /\ \/ /\ Declared(ParamsSelect, bound[p])
          /\ LET hits == { r.IdVehiculo : r \in { q \in VisibleVehiculo(p) :
                              q.NumeroSerie = req[p].vehiculoData.NumeroSerie } }
             IN  loc' = [loc EXCEPT ![p].idVehiculo =
                            IF hits = {} THEN Null ELSE MinOf(hits)]
          /\ Goto(p, "bitacora")
       \/ /\ Fail(p, "select")
          /\ UNCHANGED loc
    /\ UNCHANGED <<dbVars, aseguradora, nCalls, callId, httpVars, req, bound, txVars, result,
                   ghostVars>>

\* the row dbo.CV_InsertarBitacoraVehiculo receives
BitacoraRow(idVehiculo, numeroSerie, userData, by) ==
    [IdVehiculo |-> idVehiculo, NumeroSerie |-> numeroSerie,
     IdUsuario |-> OrZero(userData.UserID), IdPerfil |-> OrZero(userData.ProfileID),
     IdSmartCard |-> OrZero(userData.SmartCardID),
     IdDelegacion |-> OrZero(userData.DelegationID),
     IdOperacion |-> 2, by |-> by]

\* bitacoraRequest = new sql.Request(transaction); execute the audit procedure
Bitacora(p) ==
    /\ pc[p] = "bitacora"
    /\ \/ /\ txBitacora' = [txBitacora EXCEPT ![p] = @ \cup
                {BitacoraRow(loc[p].idVehiculo, req[p].vehiculoData.NumeroSerie,
                             req[p].userData, callId[p])}]
          /\ Goto(p, "insurance")
       \/ /\ Fail(p, "bitacora")
          /\ UNCHANGED txBitacora
    /\ UNCHANGED <<dbVars, aseguradora, nCalls, callId, httpVars, req, loc, bound, txState,
                   txCatalog, txVehiculo, result, ghostVars>>

\* AseguradoraInsertar on the concession pool: inserts or replaces the policy
\* of the concession; auto-committed, outside the vehicle transaction
AseguradoraInsertar(tabla, seguroData, by) ==
    [tabla EXCEPT ![seguroData.idConcesion] =
        [numeroPoliza |-> seguroData.numeroPoliza, by |-> by]]

Insurance(p) ==
    /\ pc[p] = "insurance"
    /\ \/ /\ aseguradora' = AseguradoraInsertar(aseguradora, req[p].seguroData, callId[p])
          /\ insExec' = [insExec EXCEPT ![p] = @ + 1]
          /\ insTarget' = [insTarget EXCEPT ![p] = req[p].seguroData.idConcesion]
          /\ Goto(p, "commit")
       \/ /\ Fail(p, "insurance")
          /\ insExec' = [insExec EXCEPT ![p] = @ + 1]
          /\ insTarget' = [insTarget EXCEPT ![p] = req[p].seguroData.idConcesion]
          /\ UNCHANGED aseguradora
    /\ UNCHANGED <<dbVars, nCalls, callId, httpVars, req, loc, bound, txVars, result,
                   rollbackCalls, created, resolved, nUpdates>>

\* await transaction.commit(); return { idVehiculo, returnValue: 0 }
Commit(p) ==
    /\ pc[p] = "commit"
    /\ \/ /\ catalog' = catalog \cup txCatalog[p]
          /\ vehiculo' = VisibleVehiculo(p)
          /\ bitacora' = bitacora \cup txBitacora[p]
          /\ txState' = [txState EXCEPT ![p] = "committed"]
          /\ txCatalog' = [txCatalog EXCEPT ![p] = {}]
          /\ txVehiculo' = [txVehiculo EXCEPT ![p] = {}]
          /\ txBitacora' = [txBitacora EXCEPT ![p] = {}]
          /\ result' = [result EXCEPT ![p] =
                [kind |-> "ok", idVehiculo |-> loc[p].idVehiculo, returnValue |-> 0,
                 step |-> "", wrapped |-> FALSE]]
          /\ nUpdates' = nUpdates + (IF txVehiculo[p] = {} THEN 0 ELSE 1)
          /\ Goto(p, "returned")
       \/ /\ txState' = [txState EXCEPT ![p] = "commitFailed"]
          /\ Fail(p, "commit")
          /\ UNCHANGED <<catalog, vehiculo, bitacora, txCatalog, txVehiculo,
                         txBitacora, result, nUpdates>>
    /\ UNCHANGED <<identity, aseguradora, nCalls, callId, httpVars, req, loc, bound,
                   insExec, insTarget, rollbackCalls, created, resolved>>

DiscardNothing(p) == UNCHANGED <<txCatalog, txVehiculo, txBitacora>>

\* the pending writes of a transaction that ends without a commit are dropped
Discard(p) ==
    /\ txCatalog' = [txCatalog EXCEPT ![p] = {}]
    /\ txVehiculo' = [txVehiculo EXCEPT ![p] = {}]
    /\ txBitacora' = [txBitacora EXCEPT ![p] = {}]

\* catch (err) { if (transaction) await transaction.rollback();
\*               throw new Error(`Error al modificar ...: ${err.message}`) }
\* rollback() rejects on a transaction that never began; when it rejects, its
\* own error leaves the catch block instead of the wrapped one.
Catch(p) ==
    /\ pc[p] = "catch"
    /\ IF txState[p] = "undefined"
       THEN /\ result' = [result EXCEPT ![p] =
                  [kind |-> "error", idVehiculo |-> Null, returnValue |-> Null,
                   step |-> failedAt[p], wrapped |-> TRUE]]
            /\ UNCHANGED <<txVars, rollbackCalls>>
       ELSE /\ rollbackCalls' = [rollbackCalls EXCEPT ![p] = @ + 1]
            /\ Discard(p)
            /\ \/ /\ txState[p] # "created"
                  /\ txState' = [txState EXCEPT ![p] = "rolledback"]
                  /\ result' = [result EXCEPT ![p] =
                        [kind |-> "error", idVehiculo |-> Null, returnValue |-> Null,
                         step |-> failedAt[p], wrapped |-> TRUE]]
               \/ /\ txState' = [txState EXCEPT ![p] = "broken"]
                  /\ result' = [result EXCEPT ![p] =
                        [kind |-> "error", idVehiculo |-> Null, returnValue |-> Null,
                         step |-> "rollback", wrapped |-> FALSE]]
    /\ Goto(p, "thrown")
    /\ UNCHANGED <<dbVars, aseguradora, nCalls, callId, httpVars, req, loc, bound,
                   insExec, insTarget, created, resolved, nUpdates>>

\* ------------------------------------------------------------ specification
Step(p) ==
    \/ Begin(p) \/ Lookup(p) \/ Categoria(p)
    \/ ResolveClase(p) \/ ResolveTipo(p) \/ ResolveUso(p) \/ ResolveColor(p)
    \/ UpdateVehiculo(p) \/ SelectVehiculo(p) \/ Bitacora(p)
    \/ Insurance(p) \/ Commit(p) \/ Catch(p)

Next == \E p \in Procs : StartSeq(p) \/ Step(p)

Spec == Init /\ [][Next]_vars

NextMarca == \E p \in Procs : StartMarca(p) \/ Step(p)

SpecMarca == Init /\ [][NextMarca]_vars

NextConc == \E p \in Procs : StartConc(p) \/ Step(p)

SpecConc == Init /\ [][NextConc]_vars

\* -------------------------------------------------------------- HTTP layer
\* app.js: a request arrives; express-session loads req.session from the
\* store by the cookie the client presents
Receive(p, inputs) ==
    /\ nReqs < MaxReqs
    /\ hpc[p] \in {"idle", "done"}
    /\ \E i \in inputs :
          hreq' = [hreq EXCEPT ![p] =
              [id |-> nReqs + 1, route |-> i.route, key |-> i.key,
               sessionUserId |-> CASE i.cookie = "current" -> session
                                   [] i.cookie = "stale" -> StaleUser
                                   [] OTHER -> Null,
               cred |-> i.cred, idRV |-> i.idRV]]
    /\ nReqs' = nReqs + 1
    /\ hpc' = [hpc EXCEPT ![p] = "app"]
    /\ hres' = [hres EXCEPT ![p] = NoHres]
    /\ UNCHANGED <<mainVars, session, apiKeys, historial, revista>>

\* one request at a time
ReceiveSeq(p) ==
    /\ \A q \in Procs : hpc[q] \in {"idle", "done"}
    /\ p = 1
    /\ Receive(p, HttpInputs)

\* logins arriving while another login is in progress
ReceiveLogin(p) == Receive(p, LoginInputs)

\* app.get('/api/csrf-token', ...) is registered on the application before
\* app.use('/api', apiRoutes)
AppRoutes(p) ==
    /\ hpc[p] = "app"
    /\ IF hreq[p].route = RouteCsrf
       THEN /\ hres' = [hres EXCEPT ![p].handler = "csrfToken", ![p].status = 200]
            /\ hpc' = [hpc EXCEPT ![p] = "done"]
       ELSE /\ hpc' = [hpc EXCEPT ![p] = "log"]
            /\ UNCHANGED hres
    /\ UNCHANGED <<mainVars, nReqs, hreq, session, apiKeys, historial, revista>>

\* router.use(logRequest): logApiRequest may fail; next() is called anyway
LogRequest(p) ==
    /\ hpc[p] = "log"
    /\ \E failed \in BOOLEAN : hres' = [hres EXCEPT ![p].logFailed = failed]
    /\ hpc' = [hpc EXCEPT ![p] = "loginRoute"]
    /\ UNCHANGED <<mainVars, nReqs, hreq, session, apiKeys, historial, revista>>

\* router.post('/auth/login', ...): the login handler runs loginUser
LoginRoute(p) ==
    /\ hpc[p] = "loginRoute"
    /\ IF hreq[p].route = RouteLogin
       THEN /\ hres' = [hres EXCEPT ![p].handler = "login"]
            /\ hpc' = [hpc EXCEPT ![p] = "doLogin"]
       ELSE /\ hpc' = [hpc EXCEPT ![p] = "gate"]
            /\ UNCHANGED hres
    /\ UNCHANGED <<mainVars, nReqs, hreq, session, apiKeys, historial, revista>>

\* loginUser: spmUser_DoLogin; no row or a failed query ends in 401
DoLogin(p) ==
    /\ hpc[p] = "doLogin"
    /\ \/ /\ hreq[p].cred \in MUsers
          /\ hres' = [hres EXCEPT ![p].user = hreq[p].cred]
          /\ hpc' = [hpc EXCEPT ![p] = "selectKey"]
       \/ /\ hres' = [hres EXCEPT ![p].status = 401]
          /\ hpc' = [hpc EXCEPT ![p] = "done"]
    /\ UNCHANGED <<mainVars, nReqs, hreq, session, apiKeys, historial, revista>>

\* SELECT id, [key], level FROM api_keys WHERE user_id = @user_id AND deleted_at IS NULL
ActiveKeys(rows, userId) == { k \in rows : k.user_id = userId /\ ~k.deleted }

\* apiKey = apiKeyResult.recordset[0]; if (!apiKey) { generate one }
SelectKey(p) ==
    /\ hpc[p] = "selectKey"
    /\ \/ /\ ActiveKeys(apiKeys, hres[p].user) # {}
          /\ \E k \in ActiveKeys(apiKeys, hres[p].user) :
                hres' = [hres EXCEPT ![p].apiKey = k.key]
          /\ hpc' = [hpc EXCEPT ![p] = "loginDone"]
       \/ /\ ActiveKeys(apiKeys, hres[p].user) = {}
          /\ hpc' = [hpc EXCEPT ![p] = "insertKey"]
          /\ UNCHANGED hres
       \/ /\ hres' = [hres EXCEPT ![p].status = 401]
          /\ hpc' = [hpc EXCEPT ![p] = "done"]
    /\ UNCHANGED <<mainVars, nReqs, hreq, session, apiKeys, historial, revista>>

\* crypto.randomBytes(32): a key that no row carries yet
NewApiKey(rows) == MaxOf({ k.key : k \in rows }) + 1

\* INSERT INTO api_keys (user_id, [key], ...) VALUES (@user_id, @key, ...)
InsertKey(p) ==
    /\ hpc[p] = "insertKey"
    /\ \/ /\ apiKeys' = apiKeys \cup
                {[key |-> NewApiKey(apiKeys), user_id |-> hres[p].user,
                  deleted |-> FALSE]}
          /\ hres' = [hres EXCEPT ![p].apiKey = NewApiKey(apiKeys)]
          /\ hpc' = [hpc EXCEPT ![p] = "loginDone"]
       \/ /\ hres' = [hres EXCEPT ![p].status = 401]
          /\ hpc' = [hpc EXCEPT ![p] = "done"]
          /\ UNCHANGED apiKeys
    /\ UNCHANGED <<mainVars, nReqs, hreq, session, historial, revista>>

\* req.session.userId = result.user.id; res.json(result)
LoginDone(p) ==
    /\ hpc[p] = "loginDone"
    /\ session' = hres[p].user
    /\ hres' = [hres EXCEPT ![p].status = 200]
    /\ hpc' = [hpc EXCEPT ![p] = "done"]
    /\ UNCHANGED <<mainVars, nReqs, hreq, apiKeys, historial, revista>>

GateOpen(p) ==
    /\ hpc[p] = "gate"
    /\ hpc' = [hpc EXCEPT ![p] = "handler"]
    /\ UNCHANGED <<mainVars, nReqs, hreq, hres, session, apiKeys, historial, revista>>

\* router.use((req, res, next) => { if (login) next();
\*                                   else authenticateApiKeyOrSession(...) })
Gate(p) ==
    /\ hpc[p] = "gate"
    /\ IF hreq[p].route = RouteLogin
       THEN hpc' = [hpc EXCEPT ![p] = "handler"]
       ELSE hpc' = [hpc EXCEPT ![p] = "auth"]
    /\ UNCHANGED <<mainVars, nReqs, hreq, hres, session, apiKeys, historial, revista>>

\* validateApiKey: api_keys JOIN mUsers WHERE [key] = @key AND deleted_at IS NULL
ValidateApiKey(rows, key) ==
    { k \in rows : k.key = key /\ ~k.deleted /\ k.user_id \in MUsers }

\* authenticateApiKeyOrSession: a key, when sent, decides alone; without a
\* key the session's userId must name a user; anything else, and any failed
\* query, is answered 401
Authenticate(p) ==
    /\ hpc[p] = "auth"
    /\ IF hreq[p].key # NoKey
       THEN \/ \E k \in ValidateApiKey(apiKeys, hreq[p].key) :
                 /\ hres' = [hres EXCEPT ![p].user = k.user_id]
                 /\ hpc' = [hpc EXCEPT ![p] = "handler"]
            \/ /\ hres' = [hres EXCEPT ![p].status = 401]
               /\ hpc' = [hpc EXCEPT ![p] = "done"]
       ELSE IF ~Falsy(hreq[p].sessionUserId)
            THEN \/ /\ hreq[p].sessionUserId \in MUsers
                    /\ hres' = [hres EXCEPT ![p].user = hreq[p].sessionUserId]
                    /\ hpc' = [hpc EXCEPT ![p] = "handler"]
                 \/ /\ hres' = [hres EXCEPT ![p].status = 401]
                    /\ hpc' = [hpc EXCEPT ![p] = "done"]
            ELSE /\ hres' = [hres EXCEPT ![p].status = 401]
                 /\ hpc' = [hpc EXCEPT ![p] = "done"]
    /\ UNCHANGED <<mainVars, nReqs, hreq, session, apiKeys, historial, revista>>

\* the routes registered after the gate
Handler(p) ==
    /\ hpc[p] = "handler"
    /\ CASE hreq[p].route = RouteModificar ->
              /\ \E st \in {200, 500} :
                    hres' = [hres EXCEPT ![p].handler = "modificarVehiculo",
                                         ![p].status = st]
              /\ hpc' = [hpc EXCEPT ![p] = "done"]
         [] hreq[p].route = RouteImprimir ->
              IF hreq[p].idRV = Null
              THEN /\ hres' = [hres EXCEPT ![p].handler = "imprimirRevista",
                                           ![p].status = 400]
                   /\ hpc' = [hpc EXCEPT ![p] = "done"]
              ELSE /\ hres' = [hres EXCEPT ![p].handler = "imprimirRevista"]
                   /\ hpc' = [hpc EXCEPT ![p] = "impInsert"]
         [] OTHER ->
              /\ hres' = [hres EXCEPT ![p].status = 404]
              /\ hpc' = [hpc EXCEPT ![p] = "done"]
    /\ UNCHANGED <<mainVars, nReqs, hreq, session, apiKeys, historial, revista>>

\* imprimirRevista, first statement: INSERT INTO RevistaVehicular.Historial
\* (IdRevistaVehicular, IdOperacion, IdUsuario, Fecha) VALUES (@id, 2, @idUsuario, ...)
ImpInsert(p) ==
    /\ hpc[p] = "impInsert"
    /\ \/ /\ historial' = historial \cup
                {[IdRevistaVehicular |-> hreq[p].idRV, IdOperacion |-> 2,
                  IdUsuario |-> OrZero(hreq[p].sessionUserId), by |-> hreq[p].id]}
          /\ hpc' = [hpc EXCEPT ![p] = "impUpdate"]
          /\ UNCHANGED hres
       \/ /\ hres' = [hres EXCEPT ![p].status = 500]
          /\ hpc' = [hpc EXCEPT ![p] = "done"]
          /\ UNCHANGED historial
    /\ UNCHANGED <<mainVars, nReqs, hreq, session, apiKeys, revista>>

\* the folio req.body carries
FolioSent == "F1"

\* imprimirRevista, second statement: UPDATE dbo.RevistaVehicular
\* SET IdEstatus = 2, Folio = @folio WHERE IdRevistaVehicular = @id
ImpUpdate(p) ==
    /\ hpc[p] = "impUpdate"
    /\ \/ /\ revista' =
                { IF r.IdRevistaVehicular = hreq[p].idRV
                  THEN [r EXCEPT !.IdEstatus = 2, !.Folio = FolioSent,
                                 !.by = hreq[p].id]
                  ELSE r : r \in revista }
          /\ hres' = [hres EXCEPT ![p].status = 200]
       \/ /\ hres' = [hres EXCEPT ![p].status = 500]
          /\ UNCHANGED revista
    /\ hpc' = [hpc EXCEPT ![p] = "done"]
    /\ UNCHANGED <<mainVars, nReqs, hreq, session, apiKeys, historial>>

LoginSteps(p) ==
    \/ AppRoutes(p) \/ LogRequest(p) \/ LoginRoute(p)
    \/ DoLogin(p) \/ SelectKey(p) \/ InsertKey(p) \/ LoginDone(p)

NextHttp ==
    \E p \in Procs :
        \/ ReceiveSeq(p) \/ LoginSteps(p)
        \/ Gate(p) \/ Authenticate(p) \/ Handler(p)
        \/ ImpInsert(p) \/ ImpUpdate(p)

SpecHttp == Init /\ [][NextHttp]_vars

NextLogin == \E p \in Procs : ReceiveLogin(p) \/ LoginSteps(p)

SpecLogin == Init /\ [][NextLogin]_vars

\* ------------------------------------------------------------------ claims
RowsBy(k) == { r \in catalog : r.by = k }
AuditBy(k) == { b \in bitacora : b.by = k }
Finished(p) == pc[p] \in {"returned", "thrown"}
SerialExists(p) == \E r \in vehiculo : r.NumeroSerie = req[p].vehiculoData.NumeroSerie

\* res.json({idVehiculo, returnValue, message}) or res.status(500).json({error, details})
Response(r) == IF r.kind = "ok" THEN 200 ELSE 500

\* what a response tells the caller about each side: only the success body
\* says that the vehicle, and the insurance, were written
ReportsVehicleOk(r) == Response(r) = 200
ReportsInsuranceOk(r) == Response(r) = 200

\* C1: when the UPDATE of dbo.Vehiculo fails, then once the call has thrown
\* the committed vehicle database holds no catalog row and no audit row of
\* that call.
C1_Atomicity ==
    \A p \in Procs :
        (pc[p] = "thrown" /\ failedAt[p] = "update")
            => (RowsBy(callId[p]) = {} /\ AuditBy(callId[p]) = {})

C1_Witness ==
    \E p \in Procs :
        /\ pc[p] = "thrown"
        /\ failedAt[p] = "update"
        /\ \E r \in created[p] : r.cat = "Color"
        /\ txState[p] = "rolledback"

PreCommitSteps ==
    {"lookup", "categoria", "clase", "tipo", "uso", "color", "update", "select",
     "bitacora"}

\* C2: a failure in lookup, category resolution, catalog insert, vehicle
\* update or audit write ends with rollback() called once on the transaction,
\* nothing of the call committed, an error thrown to the caller and
\* AseguradoraInsertar never executed by that call.
C2_FailureBeforeCommit ==
    \A p \in Procs :
        (pc[p] = "thrown" /\ failedAt[p] \in PreCommitSteps)
            => /\ rollbackCalls[p] = 1
               /\ txState[p] \in {"rolledback", "broken"}
               /\ RowsBy(callId[p]) = {} /\ AuditBy(callId[p]) = {}
               /\ result[p].kind = "error"
               /\ insExec[p] = 0

C2_Witness ==
    \E p \in Procs :
        /\ pc[p] = "thrown"
        /\ failedAt[p] = "bitacora"
        /\ txState[p] = "rolledback"
        /\ result[p].kind = "error"

\* C3: the vehicle transaction is committed before AseguradoraInsertar is
\* attempted, and a failed insurance upsert leaves the vehicle update and the
\* audit row of the call committed.
C3_CommitBeforeInsurance ==
    \A p \in Procs :
        /\ insExec[p] > 0 => txState[p] = "committed"
        /\ (pc[p] = "thrown" /\ failedAt[p] = "insurance")
              => (txState[p] = "committed" /\ AuditBy(callId[p]) # {})

\* C4: when the insurance upsert fails, the outcome the caller receives
\* reports vehicle success = true and insurance success = false.
C4_PartialSuccessVisible ==
    \A p \in Procs :
        (pc[p] = "thrown" /\ failedAt[p] = "insurance")
            => (ReportsVehicleOk(result[p]) /\ ~ReportsInsuranceOk(result[p]))

\* C5: a call whose NumeroSerie matches no vehicle row never returns the
\* success result {idVehiculo, returnValue: 0}.
C5_UnknownSerialIsError ==
    \A p \in Procs : pc[p] = "returned" => SerialExists(p)

\* C6: after a call whose NumeroSerie matches no vehicle row, the committed
\* vehicle database holds no catalog row and no audit row of that call.
C6_UnknownSerialLeavesNothing ==
    \A p \in Procs :
        (Finished(p) /\ ~SerialExists(p))
            => (RowsBy(callId[p]) = {} /\ AuditBy(callId[p]) = {})

\* C7: the audit table holds exactly one row per call that committed an
\* update of a vehicle row, each with operation code 2.
C7_AuditPerUpdate ==
    /\ Cardinality(bitacora) = nUpdates
    /\ \A b \in bitacora : b.IdOperacion = 2

AllAudit == bitacora \cup UNION { txBitacora[p] : p \in Procs }

\* C8: no acting-user field of an audit row is null, and a sub-field absent
\* from the acting-user context is written as 0.
C8_DefaultSafety ==
    /\ \A b \in AllAudit :
          /\ b.IdUsuario # Null /\ b.IdPerfil # Null
          /\ b.IdSmartCard # Null /\ b.IdDelegacion # Null
    /\ \A p \in Procs : \A b \in txBitacora[p] \cup AuditBy(callId[p]) :
          /\ req[p].userData.UserID = Null => b.IdUsuario = 0
          /\ req[p].userData.ProfileID = Null => b.IdPerfil = 0
          /\ req[p].userData.SmartCardID = Null => b.IdSmartCard = 0
          /\ req[p].userData.DelegationID = Null => b.IdDelegacion = 0

C8_Witness ==
    \E p \in Procs : \E b \in AuditBy(callId[p]) :
        /\ pc[p] = "returned"
        /\ req[p].userData.UserID = Null /\ req[p].userData.ProfileID = Null
        /\ req[p].userData.SmartCardID = Null /\ req[p].userData.DelegationID = Null
        /\ b.IdUsuario = 0 /\ b.IdPerfil = 0 /\ b.IdSmartCard = 0 /\ b.IdDelegacion = 0

\* C9: a call that returned successfully executed AseguradoraInsertar exactly
\* once, for the idConcesion of the request path, and the policy stored for
\* that concession is the one this call supplied.
C9_InsuranceUpsert ==
    \A p \in Procs :
        pc[p] = "returned"
            => /\ insExec[p] = 1
               /\ insTarget[p] = req[p].idConcesionInt
               /\ aseguradora[req[p].idConcesionInt] =
                     [numeroPoliza |-> req[p].seguroData.numeroPoliza,
                      by |-> callId[p]]

C9_Witness ==
    \E p \in Procs :
        /\ pc[p] = "returned"
        /\ callId[p] = 2
        /\ aseguradora[req[p].idConcesionInt].by = 2
        /\ aseguradora[req[p].idConcesionInt].numeroPoliza = "P2"

\* C10 as stated, for the Uso and Color catalogs: every resolution of one
\* label of one catalog returns the same id.
C10_SameIdEveryTime ==
    \A t1, t2 \in resolved :
        (t1.cat \in {"Uso", "Color"} /\ t1.cat = t2.cat /\ t1.label = t2.label)
            => t1.id = t2.id

LookupDone(p) ==
    /\ pc[p] \notin {"idle", "begin", "lookup"}
    /\ failedAt[p] \notin {"begin", "lookup"}

\* the label call p supplies for the catalog of row r
Asks(p, r) ==
    \/ r.cat = "Clase" /\ r.label = req[p].vehiculoData.Clase
    \/ r.cat = "Tipo" /\ r.label = req[p].vehiculoData.Tipo /\ r.idClase = loc[p].IdClase
    \/ r.cat = "Uso" /\ r.label = req[p].vehiculoData.Uso
    \/ r.cat = "Color" /\ r.label = req[p].vehiculoData.Color

IdOf(p, cat) ==
    CASE cat = "Clase" -> loc[p].IdClase
      [] cat = "Tipo" -> loc[p].IdTipo
      [] cat = "Uso" -> loc[p].IdUso
      [] cat = "Color" -> loc[p].IdColor

\* C10 amended: a label whose row an earlier call committed is resolved by a
\* later call to that row's id without any insert, and no catalog holds two
\* committed rows for one label.
C10_IdempotentOnceCommitted ==
    /\ \A p \in Procs : LookupDone(p) =>
          \A r \in catalog :
              (r.by # callId[p] /\ Asks(p, r))
                  => /\ IdOf(p, r.cat) = r.id
                     /\ \A n \in created[p] : n.cat # r.cat
    /\ \A r1, r2 \in catalog :
          (r1.cat = r2.cat /\ r1.label = r2.label /\ r1.idClase = r2.idClase)
              => r1.id = r2.id

C10_Witness ==
    \E p \in Procs : \E r \in catalog :
        /\ pc[p] = "returned"
        /\ callId[p] = 2
        /\ r.by = 1 /\ r.cat = "Color"
        /\ r.label = req[p].vehiculoData.Color
        /\ loc[p].IdColor = r.id
        /\ created[p] = {}

\* the Type label of call p is new under its class and exists under another
TipoNewUnderClase(p) ==
    /\ pc[p] = "tipo"
    /\ NeedsInsert(loc[p].IdTipo)
    /\ \E r \in Visible(p) :
          /\ r.cat = "Tipo" /\ r.label = req[p].vehiculoData.Tipo
          /\ r.idClase # loc[p].IdClase

\* C11: a call that resolves, under its class, a Type label that so far
\* exists only under another class creates a second Type row: the statements
\* it issues for that are complete (every parameter they name is bound), so
\* the row is inserted under the new class unless the database itself fails.
C11_TypeScoping ==
    \A p \in Procs : TipoNewUnderClase(p) => Declared(ParamsTipo, bound[p])

PastColor == {"update", "select", "bitacora", "insurance", "commit", "returned"}

\* C12: between the lookup and the insert the flow consults nothing: every
\* call whose lookup found no row for its Color label and that has passed the
\* Color step has inserted a row of its own for that label and uses its id,
\* whatever other calls have inserted or committed meanwhile.  (The state in
\* which the committed catalog then holds two rows with one label is the
\* witness.)
C12_NoUniquenessCheck ==
    \A p \in Procs :
        (pc[p] \in PastColor /\ Falsy(loc[p].ids.IdColor))
            => \E r \in created[p] :
                  /\ r.cat = "Color" /\ r.label = req[p].vehiculoData.Color
                  /\ r.id = loc[p].IdColor

C12_Witness ==
    \E p, q \in Procs : \E r1, r2 \in catalog :
        /\ p # q /\ pc[p] = "returned" /\ pc[q] = "returned"
        /\ r1 \in created[p] /\ r2 \in created[q]
        /\ r1.cat = "Color" /\ r2.cat = "Color"
        /\ r1.label = r2.label /\ r1.id # r2.id

\* the request body of call p lacks a vehicle field
MissingField(p) ==
    \E f \in DOMAIN req[p].vehiculoData : req[p].vehiculoData[f] = Undefined

\* C13: a request that lacks a required vehicle field is turned away before
\* any database call: its transaction is never begun, no parameter is bound,
\* it commits nothing and it is not answered with the success result.
C13_ValidationFirst ==
    \A p \in Procs :
        MissingField(p)
            => /\ txState[p] = "undefined"
               /\ bound[p] = {}
               /\ RowsBy(callId[p]) = {} /\ AuditBy(callId[p]) = {}
               /\ result[p].kind # "ok"

\* the committed vehicle row of call p's serial carries the ids p resolved
UpdateApplied(p) ==
    \E r \in vehiculo :
        /\ r.NumeroSerie = req[p].vehiculoData.NumeroSerie
        /\ r.IdClase = loc[p].IdClase /\ r.IdTipo = loc[p].IdTipo
        /\ r.IdUso = loc[p].IdUso /\ r.IdColor = loc[p].IdColor

Done(p) ==
    /\ pc[p] = "returned"
    /\ UpdateApplied(p)
    /\ AuditBy(callId[p]) # {}
    /\ insExec[p] = 1

Aborted(p) ==
    /\ pc[p] = "thrown"
    /\ txState[p] # "committed"
    /\ RowsBy(callId[p]) = {} /\ AuditBy(callId[p]) = {}

\* C14 (its safety half): a call that has ended is in one of two terminal
\* states, Done (vehicle update, audit row and insurance upsert all applied)
\* or Aborted (nothing of the call persisted on the vehicle side, and the
\* transaction never committed).
C14_DoneOrAborted ==
    \A p \in Procs : Finished(p) => (Done(p) \/ Aborted(p))

\* the mUsers row (with profile, smart card and delegation) of the caller
\* that authenticateApiKeyOrSession let through
CallerContext(auth) ==
    CHOOSE u \in UserContexts : u.UserID = AuthenticatedUser(auth)

\* C15: every audit row a call writes names the caller authenticated for the
\* request, by session cookie or by API key, as its user, and carries the
\* profile, smart-card and delegation ids resolved for that user.
C15_AuditNamesCaller ==
    \A p \in Procs : \A b \in txBitacora[p] \cup AuditBy(callId[p]) :
        /\ b.IdUsuario = AuthenticatedUser(req[p].auth)
        /\ b.IdPerfil = OrZero(CallerContext(req[p].auth).ProfileID)
        /\ b.IdSmartCard = OrZero(CallerContext(req[p].auth).SmartCardID)
        /\ b.IdDelegacion = OrZero(CallerContext(req[p].auth).DelegationID)

\* the vehicle-row column that holds the id of each resolved label
IdColumns ==
    [Clase |-> "IdClase", Tipo |-> "IdTipo", Uso |-> "IdUso", Color |-> "IdColor",
     Marca |-> "IdMarca", Submarca |-> "IdSubMarca"]

\* C16: find-or-create covers every catalog field: the vehicle row a call has
\* committed carries an id, never null, for every field whose label the
\* request supplied.
C16_FindOrCreateEveryField ==
    \A p \in Procs : pc[p] = "returned" =>
        \A r \in vehiculo : r.NumeroSerie = req[p].vehiculoData.NumeroSerie =>
            \A f \in DOMAIN IdColumns :
                req[p].vehiculoData[f] # Undefined => r[IdColumns[f]] # Null

\* C17: when a call is about to insert a new Type row, the class that scopes
\* it has been resolved and the Type statements carry exactly that class id:
\* the class id is known and bound as @IdClase, the supplied text as @Tipo.
C17_TipoCarriesClase ==
    \A p \in Procs :
        (pc[p] = "tipo" /\ NeedsInsert(loc[p].IdTipo))
            => /\ ~Falsy(loc[p].IdClase)
               /\ {"IdClase", "Tipo"} \subseteq bound[p]

\* the awaited steps of one call, in file order
StepSeq ==
    <<"begin", "lookup", "categoria", "clase", "tipo", "uso", "color", "update",
      "select", "bitacora", "insurance", "commit", "returned">>

Pos(step) == CHOOSE i \in 1..Len(StepSeq) : StepSeq[i] = step

IsStep(step) == \E i \in 1..Len(StepSeq) : StepSeq[i] = step

Inserts(p) == created'[p] \ created[p] # {}

\* C18 as stated: catalog rows are inserted by the Lookup Resolver, before
\* the Category Resolver runs; once the category lookup has been issued no
\* catalog row is inserted any more.
C18_InsertsBeforeCategoria ==
    [][\A p \in Procs : Inserts(p) => Pos(pc[p]) < Pos("categoria")]_vars

\* C18 amended: the steps of a call run one after the other in the order
\* lookups, Category Resolver, catalog inserts, Vehicle Record Updater, Audit
\* Logger: a call moves from a step only to the next one (or to its catch
\* block), catalog rows are inserted only between the Category Resolver and
\* the vehicle update, the vehicle row is written only by the update step
\* and the audit row only by the audit step.
C18_StepOrder ==
    [][\A p \in Procs :
          /\ (pc'[p] # pc[p] /\ IsStep(pc[p]) /\ pc[p] # "returned")
                => (pc'[p] = "catch" \/ (IsStep(pc'[p]) /\ Pos(pc'[p]) = Pos(pc[p]) + 1))
          /\ Inserts(p)
                => (Pos("categoria") < Pos(pc[p]) /\ Pos(pc[p]) < Pos("update"))
          /\ (txVehiculo'[p] # txVehiculo[p] /\ txVehiculo'[p] # {})
                => pc[p] = "update"
          /\ (txBitacora'[p] # txBitacora[p] /\ txBitacora'[p] # {})
                => pc[p] = "bitacora"]_vars

C18_Witness ==
    \E p \in Procs :
        /\ pc[p] = "returned"
        /\ created[p] # {}
        /\ loc[p].categoriaData # NoCategoria
        /\ AuditBy(callId[p]) # {}
        /\ UpdateApplied(p)

\* the vehicle rows call p has written: pending, or committed once it returned
UpdatedRows(p) ==
    txVehiculo[p] \cup
    (IF pc[p] = "returned"
     THEN { r \in vehiculo : r.NumeroSerie = req[p].vehiculoData.NumeroSerie }
     ELSE {})

\* C19: the vehicle row is written with the make id, and the submodel id, of
\* the combined category lookup whenever that lookup returned one, and with
\* the id of the plain lookup only when the combined lookup returned none.
C19_CategoriaPrecedence ==
    \A p \in Procs : \A r \in UpdatedRows(p) :
        /\ r.IdMarca = IF Falsy(loc[p].categoriaData.IdMarca)
                       THEN loc[p].ids.IdMarca
                       ELSE loc[p].categoriaData.IdMarca
        /\ r.IdSubMarca = IF Falsy(loc[p].categoriaData.IdSubmarca)
                          THEN loc[p].ids.IdSubMarca
                          ELSE loc[p].categoriaData.IdSubmarca

C19_Witness ==
    \E p \in Procs : \E r \in vehiculo :
        /\ pc[p] = "returned"
        /\ r.NumeroSerie = req[p].vehiculoData.NumeroSerie
        /\ ~Falsy(loc[p].ids.IdMarca) /\ ~Falsy(loc[p].categoriaData.IdMarca)
        /\ loc[p].ids.IdMarca # loc[p].categoriaData.IdMarca
        /\ r.IdMarca = loc[p].categoriaData.IdMarca

\* C20: when the combined category lookup returns no row, or a row without a
\* category, the call goes on with category id 0 and the vehicle row is
\* written with category id 0.
C20_CategoriaDefault ==
    \A p \in Procs :
        Falsy(loc[p].categoriaData.IdCategoria)
            => /\ (IsStep(pc[p]) /\ Pos(pc[p]) > Pos("categoria"))
                     => loc[p].IdCategoria = 0
               /\ \A r \in UpdatedRows(p) : r.IdCategoria = 0

C20_Witness ==
    \E p \in Procs : \E r \in vehiculo :
        /\ pc[p] = "returned"
        /\ FnCategoria(req[p].vehiculoData) = << >>
        /\ r.NumeroSerie = req[p].vehiculoData.NumeroSerie
        /\ r.IdCategoria = 0

SerialsOf(rows) == { r.NumeroSerie : r \in rows }

\* C21: no step creates or deletes a vehicle row or changes a NumeroSerie:
\* the serials of the vehicle table stay the same, a committed row changes
\* only when a call commits whose supplied serial is that row's serial, and
\* the rows a call holds pending are rows of its supplied serial that keep
\* their IdVehiculo.
C21_SerialFrame ==
    [][/\ SerialsOf(vehiculo') = SerialsOf(vehiculo)
       /\ Cardinality(vehiculo') = Cardinality(vehiculo)
       /\ \A r \in vehiculo : r \notin vehiculo' =>
              \E p \in Procs : /\ pc[p] = "commit"
                               /\ r.NumeroSerie = req[p].vehiculoData.NumeroSerie
       /\ \A p \in Procs : \A u \in txVehiculo'[p] :
              /\ u.NumeroSerie = req'[p].vehiculoData.NumeroSerie
              /\ \E r \in vehiculo : /\ r.IdVehiculo = u.IdVehiculo
                                      /\ r.NumeroSerie = u.NumeroSerie]_vars

C21_Witness ==
    \E p \in Procs :
        /\ pc[p] = "returned"
        /\ req[p].vehiculoData.NumeroSerie = "NIV12345"
        /\ \E r \in vehiculo : r.NumeroSerie = "NIV12345" /\ r \notin SeedVehiculo
        /\ \E r \in vehiculo : r.NumeroSerie = "NIV67890" /\ r \in SeedVehiculo
        /\ SerialsOf(vehiculo) = SerialsOf(SeedVehiculo)

\* C22: the idVehiculo of a success result is never undefined; it is the
\* IdVehiculo of the vehicle row whose NumeroSerie is the supplied serial and
\* the id written into the audit row of the call.
C22_ReturnedIdVehiculo ==
    \A p \in Procs : pc[p] = "returned" =>
        /\ result[p].idVehiculo # Null
        /\ \E r \in vehiculo :
              /\ r.NumeroSerie = req[p].vehiculoData.NumeroSerie
              /\ r.IdVehiculo = result[p].idVehiculo
        /\ \A b \in AuditBy(callId[p]) : b.IdVehiculo = result[p].idVehiculo

\* begin(), commit() or rollback() of call p's transaction rejected
TransactionFailed(p) ==
    \/ failedAt[p] \in {"begin", "commit"}
    \/ txState[p] = "broken"

\* C23: a call whose begin, commit or rollback failed never returns the
\* success result, and once it has thrown it carries the error kind, its
\* transaction did not commit, the committed database holds no catalog row
\* and no audit row of it, and none of its writes is pending any more.
C23_TransactionError ==
    \A p \in Procs : TransactionFailed(p) =>
        /\ pc[p] # "returned"
        /\ result[p].kind # "ok"
        /\ txState[p] # "committed"
        /\ RowsBy(callId[p]) = {} /\ AuditBy(callId[p]) = {}
        /\ pc[p] = "thrown" =>
              /\ result[p].kind = "error"
              /\ txCatalog[p] = {} /\ txVehiculo[p] = {} /\ txBitacora[p] = {}

C23_Witness ==
    \E p \in Procs :
        /\ pc[p] = "thrown"
        /\ failedAt[p] = "commit"
        /\ txState[p] = "broken"
        /\ created[p] # {}
        /\ result[p].kind = "error"

\* begin() of call p's transaction succeeded
Begun(p) == txState[p] # "undefined" /\ failedAt[p] # "begin"

\* C24: a transaction that was begun is closed exactly once by the time the
\* call has returned or thrown, by a commit or by one rollback() call and
\* never by both; and rollback() is called only on a transaction whose
\* begin() succeeded.
C24_ClosedExactlyOnce ==
    \A p \in Procs :
        /\ (Finished(p) /\ Begun(p))
              => \/ txState[p] = "committed" /\ rollbackCalls[p] = 0
                 \/ txState[p] \in {"rolledback", "broken"} /\ rollbackCalls[p] = 1
        /\ rollbackCalls[p] > 0 => Begun(p)

\* C25: the error a failed call throws is always the wrapped error of the
\* step that failed ('Error al modificar vehiculo y aseguradora: ' followed
\* by that step's message), also when the rollback in the handler fails.
C25_WrappedOriginalError ==
    \A p \in Procs : pc[p] = "thrown" =>
        /\ result[p].kind = "error"
        /\ result[p].wrapped
        /\ result[p].step = failedAt[p]

\* authentication succeeded for the request of slot p: its bearer key is an
\* active key, or it sent no key and its session names an existing user
Authenticated(p) ==
    \/ /\ hreq[p].key # NoKey
       /\ \E k \in apiKeys : k.key = hreq[p].key /\ ~k.deleted
    \/ /\ hreq[p].key = NoKey
       /\ hreq[p].sessionUserId \in MUsers

\* C27 as stated: no handler other than the login handler runs for a request
\* for which authentication did not succeed.
C27_AuthBeforeEveryHandler ==
    \A p \in Procs :
        hres[p].handler \notin {"none", "login"} => Authenticated(p)

\* C27 amended: no handler of the API router other than the login handler
\* runs without authentication; a request that reaches the router, is not
\* the login and is not authenticated is answered 401 with no handler run,
\* whether or not its logging failed.  (GET /api/csrf-token, registered on
\* the application, is served without authentication.)
C27_AuthBeforeRouterHandlers ==
    \A p \in Procs :
        /\ hres[p].handler \notin {"none", "login", "csrfToken"} => Authenticated(p)
        /\ (/\ hpc[p] = "done"
            /\ hreq[p].route \notin {RouteCsrf, RouteLogin}
            /\ ~Authenticated(p))
              => (hres[p].status = 401 /\ hres[p].handler = "none")

C27_Witness ==
    \E p \in Procs :
        /\ hpc[p] = "done"
        /\ hres[p].handler = "modificarVehiculo"
        /\ hres[p].logFailed
        /\ hreq[p].key = 41
        /\ hres[p].user = 4

\* a login that was answered 200
LoggedIn(p) == hpc[p] = "done" /\ hres[p].handler = "login" /\ hres[p].status = 200

\* C28: after any interleaving of successful loginUser calls each user has
\* at most one non-deleted row in api_keys, and every successful login of
\* that user returns that same key
C28_OneActiveKey ==
    /\ \A u \in MUsers : Cardinality(ActiveKeys(apiKeys, u)) <= 1
    /\ \A p, q \in Procs :
          (LoggedIn(p) /\ LoggedIn(q) /\ hres[p].user = hres[q].user)
              => hres[p].apiKey = hres[q].apiKey

\* a call of imprimirRevista that has returned or thrown
Printed(p) == hpc[p] = "done" /\ hres[p].handler = "imprimirRevista"
                              /\ hres[p].status \in {200, 500}

\* C29: after any call of imprimirRevista, successful or failed, the
\* history row with operation 2 has been added if and only if the
\* inspection was set to status 2 with the supplied folio
C29_WritesTogether ==
    \A p \in Procs :
        Printed(p) =>
            ((\E h \in historial : h.by = hreq[p].id /\ h.IdOperacion = 2
                                     /\ h.IdRevistaVehicular = hreq[p].idRV)
             <=> (\E r \in revista : /\ r.by = hreq[p].id
                                     /\ r.IdRevistaVehicular = hreq[p].idRV
                                     /\ r.IdEstatus = 2
                                     /\ r.Folio = FolioSent))

\* the parameters the statement of call p's current step names
StatementParams(p) ==
    CASE pc[p] = "lookup" -> ParamsIds
      [] pc[p] = "categoria" -> ParamsCategoria
      [] pc[p] = "clase" -> ParamsInsertClase
      [] pc[p] = "tipo" -> ParamsTipo
      [] pc[p] = "uso" -> ParamsInsertUso
      [] pc[p] = "color" -> ParamsInsertColor
      [] pc[p] = "update" -> ParamsUpdate
      [] pc[p] = "select" -> ParamsSelect
      [] OTHER -> {}

\* the parameters bound on the request when that statement is sent: those
\* bound so far and the request.input(...) calls that precede it in its step
BoundAtStatement(p) ==
    bound[p] \cup (CASE pc[p] = "lookup" -> InputsIds
                     [] pc[p] = "categoria" -> InputsCategoria
                     [] pc[p] = "update" -> InputsUpdate
                     [] OTHER -> {})

\* call p is about to send a statement on the transaction's request
SendsStatement(p) ==
    \/ pc[p] \in {"lookup", "categoria", "update", "select"}
    \/ pc[p] = "clase" /\ NeedsInsert(loc[p].IdClase)
    \/ pc[p] = "tipo" /\ NeedsInsert(loc[p].IdTipo)
    \/ pc[p] = "uso" /\ NeedsInsert(loc[p].IdUso)
    \/ pc[p] = "color" /\ NeedsInsert(loc[p].IdColor)

\* C30: every SQL statement a call sends on its transaction request names
\* only parameters already bound on that request by request.input, the
\* Type-creation statements with their @IdClase and @IdTipo included
C30_ParametersBound ==
    \A p \in Procs :
        SendsStatement(p) => Declared(StatementParams(p), BoundAtStatement(p))
====
